---- MODULE Spec2Model ----
(***************************************************************************)
(* IEEE 738 conductor heat balance: the steady-state rating, the modified  *)
(* secant solver for the steady-state conductor temperature, and the two   *)
(* transient integrators (temperature trajectory, settling time) of        *)
(* src/src/IEEE738.py, together with the sub-models they are built from    *)
(* (solar gain, convection, radiation, resistance, heat capacity, delta_T, *)
(* delta_t) called on their own.  A process may call several entry points  *)
(* one after the other; what it prints is kept in stdout.                  *)
(*                                                                         *)
(* Numbers.  The source computes in binary64 floating point; the model     *)
(* computes in fixed point on integers, every quantity in a fixed unit:    *)
(*                                                                         *)
(*   temperatures (T_a, T_s, T_i, T_0, dT ...)   1/1000 degC               *)
(*   heat rates per length (q_c, q_r, q_s)       1/1000 W/m                *)
(*   heat flux density (Q_s, Q_se)               1/1000 W/m2               *)
(*   currents (I, I_ss, I_i, I_f, f_i)           1/10 A                    *)
(*   resistance (R_0, R_T_avg)                   1e-9 ohm/m                *)
(*   alpha_T                                     1e-6 1/degC               *)
(*   diameter D_o                                1e-4 m                    *)
(*   wind speed V_w                              1/1000 m/s                *)
(*   elevation H_e                               1 m                       *)
(*   angles (phi, lat, Z_l, omega, delta ...)    1/1000 degree             *)
(*   epsilon, alpha, K_angle, sines, cosines     1/1000                    *)
(*   rho_f, k_f, K_solar                         1e-6                      *)
(*   mu_f                                        1e-9 kg/(m s)             *)
(*   N_Re                                        1/1000                    *)
(*   heat capacity mC_p                          1 J/(m degC)              *)
(*   masses m_i, conductor_heat_capacity         1e-4 kg/m, 1e-4 J/(m degC)*)
(*   times (dt, time, Time)                      1/10 s                    *)
(*   relative error (ea, es)                     1/100 percent             *)
(*                                                                         *)
(* A product or quotient is rounded toward zero (MulDiv).  Where the       *)
(* source writes (a / b) * c the model evaluates (a * c) / b, which is the *)
(* same real number and keeps the digits.  Fractional powers are computed  *)
(* by integer square roots or by a 10-bit binary logarithm, the            *)
(* trigonometric functions by Bhaskara's rational approximation; they      *)
(* agree with the source to a few parts in a thousand.  binary64 rounding, *)
(* infinities, NaN and OverflowError are outside the model.                *)
(*                                                                         *)
(* Python values that are not plain numbers are tagged: a number is        *)
(* [tag |-> "real", v |-> n], the result of pow(negative, fraction) is     *)
(* [tag |-> "complex"], a raised exception is [tag |-> <its class>].       *)
(***************************************************************************)
EXTENDS Integers, Sequences, FiniteSets, TLC

(***************************************************************************)
(* Integer arithmetic.                                                     *)
(***************************************************************************)
MaxInt == 2^30 + (2^30 - 1)

Abs(x) == IF x < 0 THEN -x ELSE x

Sgn(x) == IF x < 0 THEN -1 ELSE IF x > 0 THEN 1 ELSE 0

Max(a, b) == IF a >= b THEN a ELSE b

\* <<q, r>> with a * b = q * c + r and 0 <= r < c, for a, b >= 0 and c > 0,
\* by doubling, so that no intermediate exceeds the 32-bit range.
RECURSIVE MulDivQR(_, _, _)
MulDivQR(a, b, c) ==
    IF b = 0 THEN <<0, 0>>
    ELSE LET h   == MulDivQR(a, b \div 2, c)
             add == IF b % 2 = 1 THEN a ELSE 0
             t   == 2 * h[2] + (add % c)
         IN  <<2 * h[1] + (add \div c) + (t \div c), t % c>>

\* floor(a * b / c) for a, b >= 0 and c > 0.
UMulDiv(a, b, c) ==
    IF a = 0 \/ b = 0 THEN 0
    ELSE IF a <= MaxInt \div b THEN (a * b) \div c
    ELSE MulDivQR(a % c, b, c)[1] + (a \div c) * b

\* a * b / c rounded toward zero (c # 0).
MulDiv(a, b, c) == Sgn(a) * Sgn(b) * Sgn(c) * UMulDiv(Abs(a), Abs(b), Abs(c))

\* a / b rounded toward zero (b # 0): int(trunc(a / b)).
TruncDiv(a, b) == Sgn(a) * Sgn(b) * (Abs(a) \div Abs(b))

RECURSIVE IsqrtIter(_, _, _)
IsqrtIter(n, lo, hi) ==
    IF lo >= hi THEN lo
    ELSE LET mid == (lo + hi + 1) \div 2
         IN  IF mid * mid <= n THEN IsqrtIter(n, mid, hi) ELSE IsqrtIter(n, lo, mid - 1)

\* floor(sqrt(n)) for n >= 0.
Isqrt(n) == IsqrtIter(n, 0, IF n < 46340 THEN n ELSE 46340)

\* sqrt(x / s) * s for x >= 0: the square root of a fixed-point number of scale s.
RECURSIVE SqrtQ(_, _)
SqrtQ(x, s) ==
    IF x <= MaxInt \div s THEN Isqrt(x * s) ELSE 2 * SqrtQ(x \div 4, s)

RECURSIVE FloorLog2(_)
FloorLog2(x) == IF x < 2 THEN 0 ELSE 1 + FloorLog2(x \div 2)

\* 2^14 * 2^(2^-j), j = 1 .. 10.
ExpC == <<23170, 19484, 17867, 17109, 16743, 16562, 16473, 16428, 16406, 16395>>

\* The fraction bits j .. 10 of log2 of the mantissa m (2^14 <= m < 2^15), in 1/1024.
RECURSIVE Log2Frac(_, _)
Log2Frac(m, j) ==
    IF j > 10 THEN 0
    ELSE LET s == (m * m) \div 2^14
         IN  IF s >= 2^15 THEN 2^(10 - j) + Log2Frac(s \div 2, j + 1)
             ELSE Log2Frac(s, j + 1)

\* log2(x) in 1/1024, for an integer x >= 1.
Log2Q(x) ==
    LET n == FloorLog2(x)
        m == IF n <= 14 THEN (x * 2^(14 - n)) ELSE x \div 2^(n - 14)
    IN  n * 1024 + Log2Frac(m, 1)

RECURSIVE Exp2Frac(_, _, _)
Exp2Frac(m, f, j) ==
    IF j > 10 THEN m
    ELSE IF (f \div 2^(10 - j)) % 2 = 1 THEN Exp2Frac((m * ExpC[j]) \div 2^14, f, j + 1)
    ELSE Exp2Frac(m, f, j + 1)

\* floor(2^(y / 1024)) for y >= 0.
Exp2Q(y) ==
    LET n == y \div 1024
        m == Exp2Frac(2^14, y % 1024, 1)
    IN  IF n >= 14 THEN m * 2^(n - 14) ELSE m \div 2^(14 - n)

\* pow(x / s, num / den) * s for x >= 0: a fractional power of a fixed-point number.
PowQ(x, num, den, s) ==
    IF x = 0 THEN 0
    ELSE LET l == Log2Q(x) - Log2Q(s)
             y == (IF l >= 0 THEN (l * num) \div den ELSE -((-l * num + den - 1) \div den)) + Log2Q(s)
         IN  IF y < 0 THEN 0 ELSE Exp2Q(y)

(***************************************************************************)
(* math.sin, cos, asin, acos, atan on degrees (1/1000 degree in, 1/1000    *)
(* out): Bhaskara's approximation sin x = 4 x (180 - x) / (40500 -         *)
(* x (180 - x)) on [0, 180] and its inverse.                               *)
(***************************************************************************)
SinHalf(y) ==
    LET p == UMulDiv(y, 180000 - y, 1000)
    IN  UMulDiv(4 * p, 1000, 40500000 - p)

SinDeg(x) ==
    LET r == x % 360000
    IN  IF r <= 180000 THEN SinHalf(r) ELSE -SinHalf(r - 180000)

CosDeg(x) == SinDeg(x + 90000)

\* asin of s, |s| <= 1000.
ASinDeg(s) ==
    LET a == Abs(s)
        p == UMulDiv(40500000, a, 4000 + a)
    IN  Sgn(s) * (90000 - SqrtQ(8100000 - p, 1000))

ACosDeg(c) == 90000 - ASinDeg(c)

\* atan j = asin(j / sqrt(1 + j^2)) for |j| <= 1, 90 - atan(1 / j) beyond.
ATanUnit(a) == ASinDeg(UMulDiv(a, 1000, Isqrt(1000000 + a * a)))

ATanDeg(j) ==
    LET a == Abs(j)
    IN  IF a > 1000 THEN Sgn(j) * (90000 - ATanUnit(UMulDiv(1000, 1000, a)))
        ELSE Sgn(j) * ATanUnit(a)

(***************************************************************************)
(* Python values.                                                          *)
(***************************************************************************)
Real(n) == [tag |-> "real", v |-> n]

Complex == [tag |-> "complex", v |-> 0]

Raise(e) == [tag |-> e, v |-> 0]

IsReal(x) == x.tag = "real"

IsComplex(x) == x.tag = "complex"

IsRaise(x) == x.tag \notin {"real", "complex"}

\* The resistance measured from 0 C instead of the reference temperature.
ResistanceFromZero(R_0, T_0, alpha_T, T_avg) ==
    MulDiv(R_0, 1000000 + MulDiv(alpha_T, T_avg, 1000), 1000000)

(***************************************************************************)
(* Conductor electrical resistance (IEEE738.py 532-546).                   *)
(***************************************************************************)
conductor_electrical_resistance(R_0, T_0, alpha_T, T_avg) ==
    MulDiv(R_0, 1000000 + MulDiv(alpha_T, T_avg - T_0, 1000), 1000000)

(***************************************************************************)
(* Radiated heat loss (IEEE738.py 302-316).                                *)
(***************************************************************************)
\* pow((T + 273) / 100, 4), in 1e-4.
KelvinHundredsPow4(T) ==
    LET x  == MulDiv(T + 273000, 1, 10)
        x2 == MulDiv(x, x, 10000)
    IN  MulDiv(x2, x2, 10000)

radiated_heat_loss(D_o, epsilon, T_s, T_a) ==
    MulDiv(MulDiv(178 * D_o, epsilon, 1000),
           KelvinHundredsPow4(T_s) - KelvinHundredsPow4(T_a), 1000000)

(***************************************************************************)
(* Convection heat loss (IEEE738.py 143-298).                              *)
(***************************************************************************)
temperature_boundary_layer(T_s, T_a) == MulDiv(T_s + T_a, 1, 2)

\* Raises ZeroDivisionError when 1 + 0.00367 * T_film is 0.
air_density(H_e, T_film) ==
    LET den == 1000000 + MulDiv(T_film, 367, 100)
    IN  IF den = 0 THEN Raise("ZeroDivisionError")
        ELSE Real(MulDiv(1293000 - MulDiv(H_e, 1525, 10) + MulDiv(H_e * H_e, 6379, 1000000),
                         1000000, den))

\* pow(T_film + 273, 1.5) is complex below -273; the quotient raises
\* ZeroDivisionError at T_film = -383.4.
air_viscosity(T_film) ==
    LET x   == T_film + 273000
        den == T_film + 383400
    IN  IF den = 0 THEN Raise("ZeroDivisionError")
        ELSE IF x < 0 THEN Complex
        ELSE Real(MulDiv(1458, MulDiv(x, SqrtQ(x, 1000), 1000), den))

air_thermal_conductivity_coefficient(T_film) ==
    24240 + MulDiv(T_film, 7477, 100000)
          - MulDiv(MulDiv(T_film, T_film, 1000000), 4407, 1000000)

\* The natural convection of the magnitude of T_s - T_a.
NaturalConvectionOfMagnitude(rho_f, D_o, T_s, T_a) ==
    IF rho_f < 0 \/ D_o < 0 THEN Complex
    ELSE LET sr   == Isqrt(rho_f)
             s1   == Isqrt(D_o * 1000000)
             d75  == MulDiv(s1, Isqrt(s1 * 1000), 1000)
             dT   == Abs(T_s - T_a)
             t125 == MulDiv(dT, SqrtQ(SqrtQ(dT, 1000), 1000), 1000)
         IN  Real(MulDiv(MulDiv(MulDiv(3645, sr, 1000), t125, 1000), d75, 1000000))

\* 3.645 * pow(rho_f, 0.5) * pow(D_o, 0.75) * pow(T_s - T_a, 1.25): complex as soon
\* as one of the three bases is negative.
natural_convection_heat_loss(rho_f, D_o, T_s, T_a) ==
    IF rho_f < 0 \/ D_o < 0 \/ T_s - T_a < 0 THEN Complex
    ELSE LET sr   == Isqrt(rho_f)
             s1   == Isqrt(D_o * 1000000)
             d75  == MulDiv(s1, Isqrt(s1 * 1000), 1000)
             dT   == T_s - T_a
             t125 == MulDiv(dT, SqrtQ(SqrtQ(dT, 1000), 1000), 1000)
         IN  Real(MulDiv(MulDiv(MulDiv(3645, sr, 1000), t125, 1000), d75, 1000000))

\* D_o * rho_f * V_w / mu_f, mu_f a Python value: raises ZeroDivisionError at mu_f = 0.
reynolds_number(D_o, rho_f, V_w, mu_f) ==
    IF IsComplex(mu_f) THEN Complex
    ELSE IF mu_f.v = 0 THEN Raise("ZeroDivisionError")
    ELSE Real(MulDiv(MulDiv(D_o * V_w, rho_f, 1000), 100, mu_f.v))

wind_direction_factor(phi) ==
    1194 - CosDeg(phi) + MulDiv(194, CosDeg(2 * phi), 1000)
         + MulDiv(368, SinDeg(2 * phi), 1000)

\* N_Re a Python value.  pow(N_Re, 0.52) of a negative or complex N_Re is complex,
\* max() of complex operands raises TypeError, and the except clause gives 0.
forced_convection_heat_loss(K_angle, N_Re, k_f, T_s, T_a) ==
    IF IsComplex(N_Re) \/ N_Re.v < 0 THEN 0
    ELSE LET q_cf1 == MulDiv(MulDiv(MulDiv(K_angle,
                                  1010 + MulDiv(1350, PowQ(N_Re.v, 52, 100, 1000), 1000), 1000),
                                  k_f, 1000), T_s - T_a, 1000000)
             q_cf2 == MulDiv(MulDiv(MulDiv(K_angle,
                                  MulDiv(754, PowQ(N_Re.v, 6, 10, 1000), 1000), 1000),
                                  k_f, 1000), T_s - T_a, 1000000)
         IN  Max(q_cf1, q_cf2)

\* Lines 170-174 with the forced term returned where q_cn is complex.
ConvectionOfForcedTerm(rho_f, mu_f, N_Re, q_cn, k_f, K_angle, T_s, T_a) ==
    IF IsRaise(rho_f) THEN rho_f
    ELSE IF IsRaise(mu_f) THEN mu_f
    ELSE IF IsRaise(N_Re) THEN N_Re
    ELSE IF IsComplex(q_cn)
         THEN Real(forced_convection_heat_loss(K_angle, N_Re, k_f, T_s, T_a))
    ELSE Real(Max(forced_convection_heat_loss(K_angle, N_Re, k_f, T_s, T_a), q_cn.v))

\* Lines 170-174: max(q_cn, q_cf) inside try, 0 from the except clause when q_cn
\* is complex; the exceptions of air_density, air_viscosity and reynolds_number,
\* which are called outside the try, are passed on.
ConvectionOfTerms(rho_f, mu_f, N_Re, q_cn, k_f, K_angle, T_s, T_a) ==
    IF IsRaise(rho_f) THEN rho_f
    ELSE IF IsRaise(mu_f) THEN mu_f
    ELSE IF IsRaise(N_Re) THEN N_Re
    ELSE IF IsComplex(q_cn) THEN Real(0)
    ELSE Real(Max(forced_convection_heat_loss(K_angle, N_Re, k_f, T_s, T_a), q_cn.v))

\* Lines 164-169 for the air properties rho_f, mu_f and k_f at film temperature.
ConvectionOfAir(rho_f, mu_f, k_f, T_s, T_a, D_o, phi, V_w) ==
    ConvectionOfTerms(rho_f, mu_f, reynolds_number(D_o, rho_f.v, V_w, mu_f),
                      natural_convection_heat_loss(rho_f.v, D_o, T_s, T_a),
                      k_f, wind_direction_factor(phi), T_s, T_a)

\* Lines 160-163 at the film temperature.
ConvectionAtFilm(T_film, T_s, T_a, H_e, D_o, phi, V_w) ==
    ConvectionOfAir(air_density(H_e, T_film), air_viscosity(T_film),
                    air_thermal_conductivity_coefficient(T_film),
                    T_s, T_a, D_o, phi, V_w)

\* A Python value: the loss, or the ZeroDivisionError of a sub-model.
convection_heat_loss(T_s, T_a, H_e, D_o, phi, V_w) ==
    ConvectionAtFilm(temperature_boundary_layer(T_s, T_a), T_s, T_a, H_e, D_o, phi, V_w)

(***************************************************************************)
(* Steady-state thermal rating (IEEE738.py 5-23): sqrt((q_c + q_r - q_s) / *)
(* R_T_avg) inside try, 0 from the except clause when the division raises  *)
(* ZeroDivisionError or sqrt raises ValueError.                            *)
(***************************************************************************)
\* The Python value of sqrt(n / R) before the except clause.
SqrtOfQuotient(n, R) ==
    IF R = 0 THEN Raise("ZeroDivisionError")
    ELSE IF (n < 0 /\ R > 0) \/ (n > 0 /\ R < 0) THEN Raise("ValueError")
    ELSE Real(Isqrt(MulDiv(n, 100000000, R)))

\* The rating as the root of the magnitude of the radicand.
RatingOfMagnitude(q_c, q_r, q_s, R_T_avg) ==
    IF R_T_avg = 0 THEN 0
    ELSE Isqrt(Abs(MulDiv(q_c + q_r - q_s, 100000000, R_T_avg)))

steady_state_thermal_rating(q_c, q_r, q_s, R_T_avg) ==
    LET I == SqrtOfQuotient(q_c + q_r - q_s, R_T_avg)
    IN  IF IsRaise(I) THEN 0 ELSE I.v

(***************************************************************************)
(* Solar heat gain (IEEE738.py 320-527).                                   *)
(***************************************************************************)
IsLeap(year) == year % 4 = 0 /\ (year % 100 # 0 \/ year % 400 = 0)

DaysInMonth(year, month) ==
    IF month = 2 THEN (IF IsLeap(year) THEN 29 ELSE 28)
    ELSE IF month \in {4, 6, 9, 11} THEN 30 ELSE 31

\* datetime(year, month, day) raises ValueError unless this holds.
ValidDate(year, month, day) ==
    /\ year \in 1..9999
    /\ month \in 1..12
    /\ day >= 1
    /\ day <= DaysInMonth(year, month)

RECURSIVE DaysBeforeMonth(_, _)
DaysBeforeMonth(year, month) ==
    IF month <= 1 THEN 0
    ELSE DaysInMonth(year, month - 1) + DaysBeforeMonth(year, month - 1)

\* (date - datetime(date.year, 1, 1)).days
day_of_year(year, month, day) == DaysBeforeMonth(year, month) + day - 1

solar_declination(N) ==
    MulDiv(23460, SinDeg(MulDiv((284 + N) * 360, 1000, 365)), 1000)

\* hour in whole hours.
hour_angle(hour) == 15000 * (hour - 12)

\* math.asin raises ValueError outside [-1, 1]; a negative altitude becomes 0.
AltitudeOfSine(s) ==
    IF Abs(s) > 1000 THEN Raise("ValueError")
    ELSE Real(Max(ASinDeg(s), 0))

altitude_sun(lat, delta, omega) ==
    AltitudeOfSine(MulDiv(MulDiv(CosDeg(lat), CosDeg(delta), 1000), CosDeg(omega), 1000)
                   + MulDiv(SinDeg(lat), SinDeg(delta), 1000))

\* The coefficients A .. G of the source times 100^k, in 1/100.
ClearCoefficients == <<-4224, 638044, -1922000, 3469210, -3611180, 1943180, -407608>>

IndustrialCoefficients == <<5318, 142110, 661380, -3165800, 5465400, 4344600, 1323600>>

\* Sum over k = j .. 6 of c[k + 1] * (H_c / 100)^k, p being (H_c / 100)^j in 1e-6.
RECURSIVE HeatFluxTerms(_, _, _, _)
HeatFluxTerms(c, h, p, j) ==
    IF j > 6 THEN 0
    ELSE MulDiv(c[j + 1], p, 1000000) + HeatFluxTerms(c, h, MulDiv(p, h, 1000000), j + 1)

total_heat_flux_density(H_c, industrial_atmosphere) ==
    LET c == IF industrial_atmosphere THEN IndustrialCoefficients ELSE ClearCoefficients
    IN  10 * HeatFluxTerms(c, 10 * H_c, 1000000, 0)

total_heat_flux_intensity(K_solar, Q_s) == MulDiv(K_solar, Q_s, 1000000)

elevation_correction_factor(H_e) ==
    1000000 + MulDiv(H_e, 1148, 10) - MulDiv(H_e * H_e, 1108, 100000)

\* math.tan never raises: at 90 degrees it is a huge number.
TanDeg(x) ==
    IF CosDeg(x) = 0 THEN Sgn(SinDeg(x)) * 1000000000
    ELSE MulDiv(SinDeg(x), 1000, CosDeg(x))

\* sin(omega) / den: raises ZeroDivisionError when the denominator is 0.
AzimuthQuotient(num, den) ==
    IF den = 0 THEN Raise("ZeroDivisionError") ELSE Real(MulDiv(num, 1000, den))

azimuth_variable(omega, lat, delta) ==
    AzimuthQuotient(SinDeg(omega),
                    MulDiv(SinDeg(lat), CosDeg(omega), 1000)
                    - MulDiv(CosDeg(lat), TanDeg(delta), 1000))

\* An azimuth constant whose first interval is closed at hour angle 0.
AzimuthConstantClosedAtNoon(omega, ji) ==
    IF -180000 <= omega /\ omega <= 0 /\ ji >= 0 THEN 0
    ELSE IF 0 <= omega /\ omega < 180000 /\ ji < 0 THEN 360000
    ELSE 180000

azimuth_constant(omega, ji) ==
    IF -180000 <= omega /\ omega < 0 /\ ji >= 0 THEN 0
    ELSE IF 0 <= omega /\ omega < 180000 /\ ji < 0 THEN 360000
    ELSE 180000

azimuth(C, ji) == C + ATanDeg(ji)

solar_rays_incidence_angle(H_c, Z_c, Z_l) ==
    ACosDeg(MulDiv(CosDeg(H_c), CosDeg(Z_c - Z_l), 1000))

\* The product of line 356 returned as it is.
UnclampedGain(q_s) == Real(q_s)

\* Lines 356-359: a negative gain becomes 0.
NonNegativeGain(q_s) == IF q_s < 0 THEN Real(0) ELSE Real(q_s)

\* Line 356, alpha * Q_se * sin(theta) * D_o, lines 348-355 giving Q_se and theta
\* for the altitude H_c and the azimuth variable ji.
GainProduct(H_c, ji, omega, K_solar, industrial_atmosphere, Z_l, D_o, alpha) ==
    MulDiv(MulDiv(MulDiv(alpha,
             total_heat_flux_intensity(K_solar,
                 total_heat_flux_density(H_c, industrial_atmosphere)), 1000),
             SinDeg(solar_rays_incidence_angle(H_c,
                 azimuth(azimuth_constant(omega, ji), ji), Z_l)), 1000),
           D_o, 10000)

\* Lines 346-359 for the altitude H_c and the azimuth variable ji, Python values.
SolarGainOfSun(H_c, ji, omega, K_solar, industrial_atmosphere, Z_l, D_o, alpha) ==
    IF IsRaise(H_c) THEN H_c
    ELSE IF IsRaise(ji) THEN ji
    ELSE NonNegativeGain(
           GainProduct(H_c.v, ji.v, omega, K_solar, industrial_atmosphere, Z_l, D_o, alpha))

\* Lines 344-359 for the declination delta and the hour angle omega.
SolarGainAt(delta, omega, K_solar, lat, industrial_atmosphere, Z_l, D_o, alpha) ==
    SolarGainOfSun(altitude_sun(lat, delta, omega), azimuth_variable(omega, lat, delta),
                   omega, K_solar, industrial_atmosphere, Z_l, D_o, alpha)

\* A Python value: the gain, or the exception of datetime(), altitude_sun or
\* azimuth_variable.
solar_heat_gain(year, month, day, hour, H_e, lat, industrial_atmosphere, Z_l, D_o, alpha) ==
    IF ~ValidDate(year, month, day) THEN Raise("ValueError")
    ELSE SolarGainAt(solar_declination(day_of_year(year, month, day)), hour_angle(hour),
                     elevation_correction_factor(H_e), lat, industrial_atmosphere,
                     Z_l, D_o, alpha)

\* solar_heat_gain of the environment record e.
SolarGainOf(e) ==
    solar_heat_gain(e.year, e.month, e.day, e.hour, e.H_e, e.lat,
                    e.industrial_atmosphere, e.Z_l, e.D_o, e.alpha)

\* convection_heat_loss of the environment record e at surface temperature T_s.
ConvectionOf(e, T_s) == convection_heat_loss(T_s, e.T_a, e.H_e, e.D_o, e.phi, e.V_w)

\* Lines 54-62 for the sub-model values q_c and q_s, Python values.
RatingOfTerms(q_c, q_r, q_s, R_T_avg) ==
    IF IsRaise(q_c) THEN q_c
    ELSE IF IsRaise(q_s) THEN q_s
    ELSE Real(steady_state_thermal_rating(q_c.v, q_r, q_s.v, R_T_avg))

\* ss_thermal_rating (IEEE738.py 25-62), the arguments V_w .. H_e gathered in the
\* record e: a Python value, the current or the exception of a sub-model.
ss_thermal_rating(e, T_max) ==
    RatingOfTerms(ConvectionOf(e, T_max), radiated_heat_loss(e.D_o, e.epsilon, T_max, e.T_a),
                  SolarGainOf(e),
                  conductor_electrical_resistance(e.R_0, e.T_0, e.alpha_T, T_max))

(***************************************************************************)
(* The secant solver steady_state_conductor_temperature (IEEE738.py        *)
(* 66-139).                                                                *)
(***************************************************************************)
\* delta = 0.1 (line 106), in 1/1000.
delta == 100

\* The seed is T_a + 5 (line 107).
SeedOffset == 5000

\* ea = 100 percent (line 108), in 1/100 percent.
InitialEa == 10000

\* f = steady_state_thermal_rating(q_c, q_r, q_s, R_T) - I_ss (lines 124, 125) for
\* the Python value q_c, raising what convection_heat_loss raises.
ResidualOfTerms(q_c, q_r, q_s, R_T, I_ss) ==
    IF IsRaise(q_c) THEN q_c
    ELSE Real(steady_state_thermal_rating(q_c.v, q_r, q_s, R_T) - I_ss)

\* The residual at the trial temperature T (lines 115-125).
Residual(T, I_ss, q_s, e) ==
    ResidualOfTerms(ConvectionOf(e, T), radiated_heat_loss(e.D_o, e.epsilon, T, e.T_a),
                    q_s, conductor_electrical_resistance(e.R_0, e.T_0, e.alpha_T, T), I_ss)

\* The perturbed trial kept when the residuals are equal.
SecantUpdateToPerturbed(T_i, f_i, f_i2) ==
    IF f_i2 - f_i # 0
    THEN T_i - MulDiv(MulDiv(delta, T_i, 1000), f_i, f_i2 - f_i)
    ELSE MulDiv(T_i, 1000 + delta, 1000)

\* The secant update of lines 129-130.
SecantUpdate(T_i, f_i, f_i2) ==
    IF f_i2 - f_i # 0
    THEN T_i - MulDiv(MulDiv(delta, T_i, 1000), f_i, f_i2 - f_i)
    ELSE T_i

\* The relative change set to 0 when the new trial is 0.
\* A relative change that keeps ea when the trial has not moved.
RelativeErrorKeptWhenStill(T_new, T_iold, ea) ==
    IF T_new # 0 /\ T_new # T_iold
    THEN MulDiv(Abs(T_new - T_iold), 10000, Abs(T_new)) ELSE ea

RelativeErrorZeroAtZero(T_new, T_iold, ea) ==
    IF T_new # 0 THEN MulDiv(Abs(T_new - T_iold), 10000, Abs(T_new)) ELSE 0

\* The relative change of lines 132-133: ea is kept when the new trial is 0.
RelativeError(T_new, T_iold, ea) ==
    IF T_new # 0 THEN MulDiv(Abs(T_new - T_iold), 10000, Abs(T_new)) ELSE ea

\* Lines 127-133 for the trial T_new of lines 129-130.
PassOutcome(T_new, T_iold, ea) ==
    [exc |-> "none", T_i |-> T_new, ea |-> RelativeError(T_new, T_iold, ea)]

\* Lines 124-133 for the residuals f_i and f_i2, Python values.
PassOfResiduals(T_i, ea, f_i, f_i2) ==
    IF IsRaise(f_i) THEN [exc |-> f_i.tag, T_i |-> T_i, ea |-> ea]
    ELSE IF IsRaise(f_i2) THEN [exc |-> f_i2.tag, T_i |-> T_i, ea |-> ea]
    ELSE PassOutcome(SecantUpdate(T_i, f_i.v, f_i2.v), T_i, ea)

\* A pass with the perturbed point 0.9 * T_i.
SecantPassPerturbedDown(T_i, ea, I_ss, q_s, e) ==
    PassOfResiduals(T_i, ea, Residual(T_i, I_ss, q_s, e),
                    Residual(MulDiv(T_i, 1000 - delta, 1000), I_ss, q_s, e))

\* One pass of the loop body up to the exit test (lines 113-133): the new trial
\* and the new ea, or the exception raised in the pass.
SecantPass(T_i, ea, I_ss, q_s, e) ==
    PassOfResiduals(T_i, ea, Residual(T_i, I_ss, q_s, e),
                    Residual(MulDiv(T_i, 1000 + delta, 1000), I_ss, q_s, e))

\* The exit test with strict comparisons.
\* An exit test whose cap lets one pass more through.
ExitTestCapAfter(ea, es, i, imax) == ea <= es \/ i > imax

ExitTestStrict(ea, es, i, imax) == ea < es \/ i > imax

\* The exit test of line 135.
ExitTest(ea, es, i, imax) == ea <= es \/ i >= imax

\* The loop from pass i + 1 on, as a function: the Python value returned or
\* raised.  SecantLoopAfter continues after the pass with outcome p.
RECURSIVE SecantLoop(_, _, _, _, _, _, _, _)
RECURSIVE SecantLoopAfter(_, _, _, _, _, _, _)
SecantLoopAfter(p, i, I_ss, q_s, e, es, imax) ==
    IF p.exc # "none" THEN Raise(p.exc)
    ELSE IF ExitTest(p.ea, es, i, imax) THEN Real(p.T_i)
    ELSE SecantLoop(p.T_i, p.ea, i, I_ss, q_s, e, es, imax)

SecantLoop(T_i, ea, i, I_ss, q_s, e, es, imax) ==
    SecantLoopAfter(SecantPass(T_i, ea, I_ss, q_s, e), i + 1, I_ss, q_s, e, es, imax)

\* Lines 103-139 for the Python value q_s of solar_heat_gain.
SecantSolve(q_s, I_ss, e, es, imax) ==
    IF IsRaise(q_s) THEN q_s
    ELSE SecantLoop(e.T_a + SeedOffset, InitialEa, 0, I_ss, q_s.v, e, es, imax)

\* steady_state_conductor_temperature as a function of its arguments.
steady_state_conductor_temperature(I_ss, e, es, imax) ==
    SecantSolve(SolarGainOf(e), I_ss, e, es, imax)

(***************************************************************************)
(* The transient steps (IEEE738.py 657-694).                               *)
(***************************************************************************)
\* R * I^2 + q_s - q_c - q_r for the Python value q_c.
NetHeatingOfTerms(q_c, q_r, q_s, R_T_i, I) ==
    IF IsRaise(q_c) THEN q_c
    ELSE Real(MulDiv(MulDiv(R_T_i, I, 10000), I, 10000) + q_s - q_c.v - q_r)

\* The net heating at temperature T (lines 596-598 and 673, 647-649 and 693): a
\* Python value.
NetHeating(T, I, q_s, e) ==
    NetHeatingOfTerms(ConvectionOf(e, T), radiated_heat_loss(e.D_o, e.epsilon, T, e.T_a),
                      q_s, conductor_electrical_resistance(e.R_0, e.T_0, e.alpha_T, T), I)

\* delta_T (lines 657-674) of the net heating: raises ZeroDivisionError at mC_p = 0.
delta_T(net, mC_p, dt) ==
    IF mC_p = 0 THEN Raise("ZeroDivisionError")
    ELSE Real(MulDiv(net, dt, mC_p * 10))

\* delta_t (lines 677-694) of the net heating: raises ZeroDivisionError at net = 0.
delta_t(net, mC_p, dT) ==
    IF net = 0 THEN Raise("ZeroDivisionError")
    ELSE Real(MulDiv(mC_p * 10, dT, net))

(***************************************************************************)
(* Conductor heat capacity (IEEE738.py 698-713): masses in 1e-4 kg/m,      *)
(* specific heats in J/(kg C), the result in 1e-4 J/(m C).  The products   *)
(* and the sum are exact here; binary64 rounds each of them.               *)
(***************************************************************************)
\* list(zip(m_i, C_pi)): as many pairs as the shorter list has elements.
Zip(m_i, C_pi) ==
    [j \in 1 .. (IF Len(m_i) <= Len(C_pi) THEN Len(m_i) ELSE Len(C_pi)) |->
        <<m_i[j], C_pi[j]>>]

\* The loop of lines 711-712 from the accumulator mC_p over the pairs left.
RECURSIVE AccumulateProducts(_, _)
AccumulateProducts(mC_p, m_iC_pi) ==
    IF m_iC_pi = <<>> THEN mC_p
    ELSE AccumulateProducts(mC_p + m_iC_pi[1][1] * m_iC_pi[1][2], Tail(m_iC_pi))

\* The accumulator assigned, not added to, in the loop: the last product.
HeatCapacityOfLastPair(m_i, C_pi) ==
    IF Zip(m_i, C_pi) = <<>> THEN 0
    ELSE Zip(m_i, C_pi)[Len(Zip(m_i, C_pi))][1] * Zip(m_i, C_pi)[Len(Zip(m_i, C_pi))][2]

conductor_heat_capacity(m_i, C_pi) == AccumulateProducts(0, Zip(m_i, C_pi))

(***************************************************************************)
(* The calls that are explored.                                            *)
(***************************************************************************)
\* The largest iteration cap passed to the solver.
MaxImax == 8

\* The largest number of whole steps that fit in a trajectory's total time.
MaxSteps == 3

\* The settling loop is followed for at most this many passes.
MaxSettlePasses == 6

\* A 28.1 mm conductor at 30 deg north, 10 June 2020, noon, clear atmosphere.
NoonEnv ==
    [V_w |-> 610, phi |-> 90000, epsilon |-> 500, alpha |-> 500, T_a |-> 40000,
     D_o |-> 281, R_0 |-> 72830, T_0 |-> 25000, alpha_T |-> 4030, Z_l |-> 90000,
     lat |-> 30000, industrial_atmosphere |-> FALSE, year |-> 2020, month |-> 6,
     day |-> 10, hour |-> 12, H_e |-> 0]

NightEnv == [NoonEnv EXCEPT !.hour = 0]

\* Ambient -5 C: the seed T_a + 5 is 0.
FrostEnv == [NightEnv EXCEPT !.T_a = -5000]

\* Ambient -275.5 C: the film temperature at the seed is -273 C.
BelowZeroKelvinEnv == [NightEnv EXCEPT !.T_a = -275500]

\* 31 April is no date.
BadDateEnv == [NoonEnv EXCEPT !.month = 4, !.day = 31]

\* Absorptivity 0.9: at the seed and at its perturbation the solar gain exceeds
\* the losses.
BrightEnv == [NoonEnv EXCEPT !.alpha = 900]

SolverEnvs == {NoonEnv, NightEnv, FrostEnv, BelowZeroKelvinEnv, BadDateEnv, BrightEnv}

NoArg ==
    [I_ss |-> 0, I_i |-> 0, I_f |-> 0, dt |-> 0, time |-> 0, mC_p |-> 0, dT |-> 0,
     T_max |-> 0, q_c |-> 0, q_r |-> 0, q_s |-> 0, R_T_avg |-> 0,
     es |-> 0, imax |-> 0, e |-> NoonEnv,
     T_s |-> 0, T_avg |-> 0, I |-> 0, m_i |-> <<>>, C_pi |-> <<>>,
     omega |-> 0, ji |-> 0]

RatingArgs ==
    {[NoArg EXCEPT !.q_c = c, !.q_r = r, !.q_s = s, !.R_T_avg = R] :
        c \in {0, 81930}, r \in {-1040, 24406}, s \in {0, 14501, 200000},
        R \in {-72830, 0, 72830, 94842}}

SolverArgs ==
    {[NoArg EXCEPT !.I_ss = I, !.e = v, !.es = s, !.imax = m] :
        I \in {0, 5000, 9848}, v \in SolverEnvs, s \in {0, 10, 100, 10000, 20000},
        m \in {-1, 0, 1, 2, MaxImax}}

RoundTripArgs ==
    {[NoArg EXCEPT !.T_max = t, !.e = v, !.es = s, !.imax = MaxImax] :
        t \in {50000, 60000, 100000}, v \in {NightEnv, FrostEnv}, s \in {10, 100}}

TrajectoryArgs ==
    {[NoArg EXCEPT !.I_i = a, !.I_f = b, !.dt = d, !.time = t, !.mC_p = m,
                   !.es = 10, !.imax = MaxImax] :
        a \in {5000, 10000}, b \in {5000, 10000}, d \in {-600, 0, 600, 700},
        t \in {-600, 0, 599, 600 * MaxSteps}, m \in {0, 1309}}

SettlingArgs ==
    {[NoArg EXCEPT !.I_i = a, !.I_f = b, !.dT = d, !.mC_p = 1309,
                   !.es = 10, !.imax = MaxImax] :
        a \in {5000, 10000}, b \in {5000, 10000},
        d \in {-10000, 0, 10000, 20000}}

\* (month, day): three dates of 2020 and 31 April, which is none.
SolarDates == {<<1, 1>>, <<6, 10>>, <<12, 21>>, <<4, 31>>}

\* solar_heat_gain at midnight, in the morning, at noon and in the evening, under
\* both atmospheres, at two elevations and for two conductor azimuths.
SolarArgs ==
    {[NoArg EXCEPT !.e = [NoonEnv EXCEPT !.lat = l, !.month = d[1], !.day = d[2],
                                         !.hour = h, !.industrial_atmosphere = a,
                                         !.H_e = he, !.Z_l = z]] :
        l \in {-60000, 30000, 60000}, d \in SolarDates, h \in {0, 6, 12, 18},
        a \in BOOLEAN, he \in {0, 1000}, z \in {0, 90000}}

\* Surface temperatures from -50 C to 150 C.
SurfaceTemperatures == {-50000, -10000, 20000, 40000, 60000, 100000, 150000}

\* convection_heat_loss in still air and in wind, along and across the conductor,
\* at sea level and at 1000 m, the ambient at 20 C and at 40 C; and with the film
\* temperature (T_s + T_a) / 2 at -273 C.
ConvectionArgs ==
    {[NoArg EXCEPT !.T_s = t, !.e = [NoonEnv EXCEPT !.T_a = a, !.V_w = w, !.phi = f,
                                                   !.H_e = he]] :
        t \in SurfaceTemperatures, a \in {20000, 40000}, w \in {0, 610, 5000},
        f \in {0, 90000}, he \in {0, 1000}}
    \cup
    {[NoArg EXCEPT !.T_s = -273000 + d, !.e = [NoonEnv EXCEPT !.T_a = -273000 - d,
                                                             !.V_w = w]] :
        d \in {0, 2500}, w \in {0, 610}}

\* radiated_heat_loss for two emissivities and two ambient temperatures.
RadiationArgs ==
    {[NoArg EXCEPT !.T_s = t, !.e = [NoonEnv EXCEPT !.T_a = a, !.epsilon = x]] :
        t \in SurfaceTemperatures, a \in {20000, 40000}, x \in {500, 900}}

\* delta_T and delta_t with and without heat capacity, and with net heating that
\* is zero (no current, no gain, no loss), positive and negative.
DeltaArgs ==
    {[NoArg EXCEPT !.R_T_avg = R, !.I = c, !.q_s = s, !.q_c = qc, !.q_r = qr,
                   !.mC_p = mc, !.dt = 600, !.dT = 10000] :
        R \in {72830, 94842}, c \in {0, 10000}, s \in {0, 14501}, qc \in {0, 81930},
        qr \in {0, 24406}, mc \in {0, 1309}}

\* ss_thermal_rating at two conductor temperatures, by day and by night.
ThermalRatingArgs ==
    {[NoArg EXCEPT !.T_max = t, !.e = v] : t \in {60000, 100000}, v \in {NoonEnv, NightEnv}}

\* A process makes at most this many calls before the one that is followed.
MaxEarlier == 2

\* The calls a process makes one after the other: <<function, arguments>>, each
\* entry point once, and a call of the solver that raises.
RepeatedCalls ==
    {<<"ss_thermal_rating", [NoArg EXCEPT !.T_max = 100000]>>,
     <<"steady_state_conductor_temperature",
       [NoArg EXCEPT !.I_ss = 9848, !.es = 10, !.imax = MaxImax]>>,
     <<"steady_state_conductor_temperature",
       [NoArg EXCEPT !.I_ss = 9848, !.e = BadDateEnv, !.es = 10, !.imax = MaxImax]>>,
     <<"transient_conductor_temperature",
       [NoArg EXCEPT !.I_i = 5000, !.I_f = 10000, !.dt = 600, !.time = 600 * MaxSteps,
                     !.mC_p = 1309, !.es = 10, !.imax = MaxImax]>>,
     <<"transient_settling_time",
       [NoArg EXCEPT !.I_i = 5000, !.I_f = 10000, !.dT = 20000, !.mC_p = 1309,
                     !.es = 10, !.imax = MaxImax]>>}

\* Conductor temperatures in whole degrees, below and above the reference.
ResistanceTemperatures == {-40000, 20000, 25000, 50000, 100000, 250000}

\* conductor_electrical_resistance for two conductors, two reference temperatures
\* and three temperature coefficients.
ResistanceArgs ==
    {[NoArg EXCEPT !.T_avg = t, !.e = [NoonEnv EXCEPT !.R_0 = R, !.T_0 = t0,
                                                     !.alpha_T = c]] :
        t \in ResistanceTemperatures, R \in {100000, 200000}, t0 \in {20000, 25000},
        c \in {0, 4000, 4030}}

\* The conductors of the calls of conductor_heat_capacity have at most this many
\* materials.
MaxMaterials == 3

\* <<mass, specific heat>> of aluminium and steel in a conductor, and of copper.
Materials == {<<11160, 955>>, <<5119, 476>>, <<3000, 385>>}

\* conductor_heat_capacity for every list of 0 .. MaxMaterials materials.
HeatCapacityArgs ==
    {[NoArg EXCEPT !.m_i = [j \in DOMAIN c |-> c[j][1]],
                   !.C_pi = [j \in DOMAIN c |-> c[j][2]]] :
        c \in UNION {[1 .. len -> Materials] : len \in 0 .. MaxMaterials}}

\* day_of_year for the first and the last day of a year, 21 January, 1 March and
\* the solstices, in a leap year and in a common year: <<year, month, day>>.
DayOfYearDates ==
    {<<y, d[1], d[2]>> : y \in {2020, 2021},
                         d \in {<<1, 1>>, <<1, 21>>, <<3, 1>>, <<6, 21>>, <<12, 21>>,
                                <<12, 31>>}}

DayOfYearArgs ==
    {[NoArg EXCEPT !.e = [NoonEnv EXCEPT !.year = d[1], !.month = d[2], !.day = d[3]]] :
        d \in DayOfYearDates}

\* Hour angles in and around [-180, 180) and azimuth variables of either sign
\* for calls of azimuth_constant, and the whole hours of a day for hour_angle.
HourAngles ==
    {-195000, -180001, -180000, -90000, -15000, -1, 0, 1, 15000, 90000, 165000,
     179999, 180000, 195000}

AzimuthVariables == {-5000, -1, 0, 1, 5000}

AzimuthConstantArgs ==
    {[NoArg EXCEPT !.omega = w, !.ji = j] : w \in HourAngles, j \in AzimuthVariables}

HourAngleArgs == {[NoArg EXCEPT !.e = [NoonEnv EXCEPT !.hour = h]] : h \in 0 .. 23}

VARIABLES
    op,         \* the function called
    arg,        \* its arguments
    pc,         \* the control point
    frame,      \* the call of steady_state_conductor_temperature that is running
    I_ss,       \* the solver's target current
    q_s,        \* the solver's q_s
    T_i,        \* the solver's trial temperature
    ea,         \* the solver's relative change
    i,          \* the solver's pass counter
    T_avg,      \* the solver's T_avg: <<>> is None
    T,          \* transient_conductor_temperature's list T
    n,          \* its n
    k,          \* the elements of nt its loop has consumed
    tT_i,       \* the transient functions' T_i: <<>> before the solver returns it
    tT_f,       \* transient_settling_time's T_f: <<>> before line 641 returns
    tq_s,       \* the transient functions' q_s
    sT,         \* transient_settling_time's T
    Time,       \* its Time
    passes,     \* the passes of its loop body
    result,     \* the value returned to the caller: <<>> before the return
    exc,        \* the exception that left the call, or "none"
    stdout,     \* what print has written to the standard output, a line per element
    earlier     \* the calls the process has finished before this one, in order

vars ==
    <<op, arg, pc, frame, I_ss, q_s, T_i, ea, i, T_avg, T, n, k, tT_i, tT_f, tq_s,
      sT, Time, passes, result, exc, stdout, earlier>>

solverVars == <<I_ss, q_s, T_i, ea, i, T_avg>>
transientVars == <<T, n, k, tT_i, tT_f, tq_s, sT, Time, passes>>

\* The standard output is empty and no call has been made when the process starts.
Start(o, a, p) ==
    /\ op = o /\ arg = a /\ pc = p
    /\ stdout = <<>> /\ earlier = <<>>
    /\ frame = "none" /\ I_ss = 0 /\ q_s = 0 /\ T_i = 0 /\ ea = 0 /\ i = 0
    /\ T_avg = <<>> /\ T = <<>> /\ n = 0 /\ k = 0
    /\ tT_i = <<>> /\ tT_f = <<>> /\ tq_s = 0 /\ sT = 0 /\ Time = 0 /\ passes = 0
    /\ result = <<>> /\ exc = "none"

Init ==
    \/ \E a \in RatingArgs : Start("steady_state_thermal_rating", a, "call")
    \/ \E a \in SolverArgs : Start("steady_state_conductor_temperature", a, "call")
    \/ \E a \in RoundTripArgs : Start("round_trip", a, "call")
    \/ \E a \in TrajectoryArgs : Start("transient_conductor_temperature", a, "call")
    \/ \E a \in SettlingArgs : Start("transient_settling_time", a, "call")
    \/ \E a \in SolarArgs : Start("solar_heat_gain", a, "call")
    \/ \E a \in ThermalRatingArgs : Start("ss_thermal_rating", a, "call")
    \/ \E a \in DeltaArgs : Start("delta_T", a, "call")
    \/ \E a \in DeltaArgs : Start("delta_t", a, "call")
    \/ \E a \in ConvectionArgs : Start("convection_heat_loss", a, "call")
    \/ \E a \in RadiationArgs : Start("radiated_heat_loss", a, "call")
    \/ \E a \in ResistanceArgs : Start("conductor_electrical_resistance", a, "call")
    \/ \E a \in DayOfYearArgs : Start("day_of_year", a, "call")
    \/ \E a \in AzimuthConstantArgs : Start("azimuth_constant", a, "call")
    \/ \E a \in HourAngleArgs : Start("hour_angle", a, "call")
    \/ \E a \in HeatCapacityArgs : Start("conductor_heat_capacity", a, "call")

(***************************************************************************)
(* The actions.  An exception that nothing catches leaves the call:        *)
(* pc = "raised" and exc is its class.                                     *)
(***************************************************************************)
Raised(e) == pc' = "raised" /\ exc' = e

\* steady_state_thermal_rating(q_c, q_r, q_s, R_T_avg) called and returned.
RatingCall ==
    /\ op = "steady_state_thermal_rating" /\ pc = "call"
    /\ result' = <<steady_state_thermal_rating(arg.q_c, arg.q_r, arg.q_s, arg.R_T_avg)>>
    /\ pc' = "done"
    /\ UNCHANGED <<op, arg, earlier, stdout, frame, solverVars, transientVars, exc>>

\* A sub-model called by the user returns the Python value v or raises it.
SubModelReturn(v) ==
    /\ IF IsRaise(v)
       THEN Raised(v.tag) /\ result' = result
       ELSE result' = <<v.v>> /\ pc' = "done" /\ exc' = exc
    /\ UNCHANGED <<op, arg, earlier, stdout, frame, solverVars, transientVars>>

\* solar_heat_gain(year, ..., alpha) called by the user.
SolarGainCall ==
    /\ op = "solar_heat_gain" /\ pc = "call"
    /\ \E v \in {SolarGainOf(arg.e)} : SubModelReturn(v)

\* convection_heat_loss(T_s, T_a, H_e, D_o, phi, V_w) called by the user.
ConvectionCall ==
    /\ op = "convection_heat_loss" /\ pc = "call"
    /\ \E v \in {ConvectionOf(arg.e, arg.T_s)} : SubModelReturn(v)

\* radiated_heat_loss(D_o, epsilon, T_s, T_a) called by the user.
RadiationCall ==
    /\ op = "radiated_heat_loss" /\ pc = "call"
    /\ SubModelReturn(Real(radiated_heat_loss(arg.e.D_o, arg.e.epsilon, arg.T_s, arg.e.T_a)))

\* R_T_avg * I**2 + q_s - q_c - q_r of the arguments a of delta_T and delta_t.
NetHeatingOfArgs(a) == NetHeatingOfTerms(Real(a.q_c), a.q_r, a.q_s, a.R_T_avg, a.I).v

\* delta_T(R_T_avg, I, q_s, q_c, q_r, mC_p, dt) called by the user.
DeltaTCall ==
    /\ op = "delta_T" /\ pc = "call"
    /\ SubModelReturn(delta_T(NetHeatingOfArgs(arg), arg.mC_p, arg.dt))

\* delta_t(R_T_avg, I, q_s, q_c, q_r, mC_p, dT) called by the user.
DeltaTimeCall ==
    /\ op = "delta_t" /\ pc = "call"
    /\ SubModelReturn(delta_t(NetHeatingOfArgs(arg), arg.mC_p, arg.dT))

\* ss_thermal_rating(V_w, ..., T_max, ..., H_e) called by the user.
ThermalRatingCall ==
    /\ op = "ss_thermal_rating" /\ pc = "call"
    /\ \E v \in {ss_thermal_rating(arg.e, arg.T_max)} : SubModelReturn(v)

\* The process calls again after a call has returned or raised: the locals of
\* the new call are those of a new frame, the standard output keeps its lines.
NextCall ==
    /\ pc \in {"done", "raised"}
    /\ <<op, arg>> \in RepeatedCalls
    /\ Len(earlier) < MaxEarlier
    /\ earlier' = Append(earlier, [op |-> op, arg |-> arg, result |-> result, exc |-> exc])
    /\ \E c \in RepeatedCalls : op' = c[1] /\ arg' = c[2]
    /\ pc' = "call" /\ frame' = "none" /\ result' = <<>> /\ exc' = "none"
    /\ I_ss' = 0 /\ q_s' = 0 /\ T_i' = 0 /\ ea' = 0 /\ i' = 0 /\ T_avg' = <<>>
    /\ T' = <<>> /\ n' = 0 /\ k' = 0 /\ tT_i' = <<>> /\ tT_f' = <<>> /\ tq_s' = 0
    /\ sT' = 0 /\ Time' = 0 /\ passes' = 0
    /\ stdout' = stdout

\* The solver seeded with the temperature the last call of the process returned.
SolverEntryWarmStart(I, frm) ==
    /\ \E s \in {SolarGainOf(arg.e)} :
          IF IsRaise(s)
          THEN /\ Raised(s.tag)
               /\ UNCHANGED <<frame, solverVars, stdout>>
          ELSE /\ frame' = frm
               /\ I_ss' = I
               /\ q_s' = s.v
               /\ stdout' = Append(stdout, <<"q_s = ", s.v>>)
               /\ T_i' = IF earlier # <<>> /\ Len(earlier[Len(earlier)].result) = 1
                         THEN earlier[Len(earlier)].result[1]
                         ELSE arg.e.T_a + SeedOffset
               /\ ea' = InitialEa
               /\ i' = 0
               /\ T_avg' = <<>>
               /\ pc' = "solver_loop"
               /\ exc' = exc
    /\ UNCHANGED <<op, arg, earlier, transientVars, result>>

\* conductor_electrical_resistance(R_0, T_0, alpha_T, T_avg) called by the user.
ResistanceCall ==
    /\ op = "conductor_electrical_resistance" /\ pc = "call"
    /\ SubModelReturn(Real(conductor_electrical_resistance(arg.e.R_0, arg.e.T_0,
                                                           arg.e.alpha_T, arg.T_avg)))

\* conductor_heat_capacity(m_i, C_pi) called by the user.
HeatCapacityCall ==
    /\ op = "conductor_heat_capacity" /\ pc = "call"
    /\ SubModelReturn(Real(conductor_heat_capacity(arg.m_i, arg.C_pi)))

\* day_of_year(datetime(year, month, day)) called by the user.
DayOfYearCall ==
    /\ op = "day_of_year" /\ pc = "call"
    /\ SubModelReturn(Real(day_of_year(arg.e.year, arg.e.month, arg.e.day)))

\* A call of azimuth_constant(omega, ji) on its own.
AzimuthConstantCall ==
    /\ op = "azimuth_constant" /\ pc = "call"
    /\ SubModelReturn(Real(azimuth_constant(arg.omega, arg.ji)))

\* A call of hour_angle(hour) on its own.
HourAngleCall ==
    /\ op = "hour_angle" /\ pc = "call"
    /\ SubModelReturn(Real(hour_angle(arg.e.hour)))

\* Lines 103-110 of a call of the solver for the current I on behalf of frm.
SolverEntry(I, frm) ==
    /\ \E s \in {SolarGainOf(arg.e)} :
          IF IsRaise(s)
          THEN /\ Raised(s.tag)
               /\ UNCHANGED <<frame, solverVars, stdout>>
          ELSE /\ frame' = frm
               /\ I_ss' = I
               /\ q_s' = s.v
               /\ stdout' = Append(stdout, <<"q_s = ", s.v>>)
               /\ T_i' = arg.e.T_a + SeedOffset
               /\ ea' = InitialEa
               /\ i' = 0
               /\ T_avg' = <<>>
               /\ pc' = "solver_loop"
               /\ exc' = exc
    /\ UNCHANGED <<op, arg, earlier, transientVars, result>>

\* steady_state_conductor_temperature called by the user.
SolverCall ==
    /\ op = "steady_state_conductor_temperature" /\ pc = "call"
    /\ SolverEntry(arg.I_ss, "main")

\* The round trip: I = ss_thermal_rating(..., T_max) ...
RoundTripRating ==
    /\ op = "round_trip" /\ pc = "call"
    /\ \E r \in {ss_thermal_rating(arg.e, arg.T_max)} :
          IF IsRaise(r)
          THEN Raised(r.tag) /\ I_ss' = I_ss
          ELSE I_ss' = r.v /\ pc' = "rated" /\ exc' = exc
    /\ UNCHANGED <<op, arg, earlier, stdout, frame, q_s, T_i, ea, i, T_avg, transientVars, result>>

\* ... and steady_state_conductor_temperature(I, ...).
RoundTripSolve ==
    /\ op = "round_trip" /\ pc = "rated"
    /\ SolverEntry(I_ss, "main")

\* One pass of the while True loop, lines 112-138.
SolverPass ==
    /\ pc = "solver_loop"
    /\ i' = i + 1
    /\ \E p \in {SecantPass(T_i, ea, I_ss, q_s, arg.e)} :
          IF p.exc # "none"
          THEN /\ Raised(p.exc)
               /\ UNCHANGED <<T_i, ea, T_avg, stdout>>
          ELSE /\ T_i' = p.T_i
               /\ ea' = p.ea
               /\ exc' = exc
               /\ IF ExitTest(p.ea, arg.es, i + 1, arg.imax)
                  THEN /\ T_avg' = <<p.T_i>>
                       /\ stdout' = Append(stdout, <<"Numero de iteraciones: ", i + 1>>)
                       /\ pc' = "solver_return"
                  ELSE T_avg' = T_avg /\ stdout' = stdout /\ pc' = pc
    /\ UNCHANGED <<op, arg, earlier, frame, I_ss, q_s, transientVars, result>>

\* return T_avg, line 139, to the call site.
SolverReturn ==
    /\ pc = "solver_return"
    /\ CASE frame = "main" ->
              /\ result' = T_avg /\ pc' = "done"
              /\ UNCHANGED <<tT_i, tT_f>>
         [] frame = "T_i" ->
              /\ tT_i' = T_avg
              /\ pc' = IF op = "transient_conductor_temperature"
                       THEN "trajectory_init" ELSE "settling_solve_f"
              /\ UNCHANGED <<tT_f, result>>
         [] frame = "T_f" ->
              /\ tT_f' = T_avg /\ pc' = "settling_init"
              /\ UNCHANGED <<tT_i, result>>
    /\ frame' = "none"
    /\ UNCHANGED <<op, arg, earlier, stdout, solverVars, T, n, k, tq_s, sT, Time, passes, exc>>

(***************************************************************************)
(* transient_conductor_temperature (IEEE738.py 552-603).                   *)
(***************************************************************************)
\* The current of the final state passed to the solver.
TrajectoryFinalCurrent(a) == a.I_f

\* The current passed to the solver on line 587.
TrajectoryInitialCurrent(a) == a.I_i

\* T[-1] + dT of line 602 for the Python value dT of delta_T.
SampleAfter(Tlast, dT) == IF IsRaise(dT) THEN dT ELSE Real(Tlast + dT.v)

\* Lines 600-602 for the net heating net, a Python value.
EulerOfNet(Tlast, net, mC_p, dt) ==
    IF IsRaise(net) THEN net ELSE SampleAfter(Tlast, delta_T(net.v, mC_p, dt))

\* The step computed with the initial current.
EulerStepInitialCurrent(Tlast, a, qs) ==
    EulerOfNet(Tlast, NetHeating(Tlast, a.I_i, qs, a.e), a.mC_p, a.dt)

\* Lines 596-602: the sample appended after the sample Tlast, a Python value.
EulerStep(Tlast, a, qs) ==
    EulerOfNet(Tlast, NetHeating(Tlast, a.I_f, qs, a.e), a.mC_p, a.dt)

\* One step more than trunc(time / dt).
StepCountPlusOne(time, dt) ==
    IF dt = 0 THEN Raise("ZeroDivisionError") ELSE Real(TruncDiv(time, dt) + 1)

\* n = int(trunc(time / dt)), line 592: a Python value.
StepCount(time, dt) ==
    IF dt = 0 THEN Raise("ZeroDivisionError") ELSE Real(TruncDiv(time, dt))

\* Line 587.
TrajectoryCall ==
    /\ op = "transient_conductor_temperature" /\ pc = "call"
    /\ SolverEntry(TrajectoryInitialCurrent(arg), "T_i")

\* Lines 588-593.
TrajectoryInit ==
    /\ pc = "trajectory_init"
    /\ tq_s' = SolarGainOf(arg.e).v
    /\ T' = tT_i
    /\ \E c \in {StepCount(arg.time, arg.dt)} :
          IF IsRaise(c)
          THEN Raised(c.tag) /\ n' = n
          ELSE n' = c.v /\ pc' = "trajectory_loop" /\ exc' = exc
    /\ k' = 0
    /\ UNCHANGED <<op, arg, earlier, stdout, frame, solverVars, tT_i, tT_f, sT, Time, passes, result>>

\* One pass of the for loop, lines 594-602: nt has n elements, none for n <= 0.
TrajectoryStep ==
    /\ pc = "trajectory_loop" /\ k < n
    /\ \E s \in {EulerStep(T[Len(T)], arg, tq_s)} :
          IF IsRaise(s)
          THEN Raised(s.tag) /\ T' = T
          ELSE T' = Append(T, s.v) /\ pc' = pc /\ exc' = exc
    /\ k' = k + 1
    /\ UNCHANGED <<op, arg, earlier, stdout, frame, solverVars, n, tT_i, tT_f, tq_s, sT, Time, passes,
                   result>>

\* return T, line 603.
TrajectoryReturn ==
    /\ pc = "trajectory_loop" /\ k >= n
    /\ result' = <<T>>
    /\ pc' = "done"
    /\ UNCHANGED <<op, arg, earlier, stdout, frame, solverVars, transientVars, exc>>

(***************************************************************************)
(* transient_settling_time (IEEE738.py 607-655).                           *)
(***************************************************************************)
\* The loop test with a strict comparison.
SettlingLoopTestStrict(t, t_f) == t < t_f

\* The loop test turned round.
SettlingLoopTestReversed(t, t_f) == t >= t_f

\* The test of the while loop, line 645.
SettlingLoopTest(t, t_f) == t <= t_f

\* Line 651 for the net heating net, a Python value.
IncrementOfNet(net, mC_p, dT) ==
    IF IsRaise(net) THEN net ELSE delta_t(net.v, mC_p, dT)

\* An advance that leaves the temperature where it is.
SettlingAdvanceStalled(t, dT) == t

\* The advance by the magnitude of dT.
SettlingAdvanceMagnitude(t, dT) == t + Abs(dT)

\* T += dT, line 653.
SettlingAdvance(t, dT) == t + dT

\* Lines 647-651: the time increment of a pass at temperature t, a Python value.
SettlingIncrement(t, a, qs) ==
    IncrementOfNet(NetHeating(t, a.I_f, qs, a.e), a.mC_p, a.dT)

\* Line 640.
SettlingCall ==
    /\ op = "transient_settling_time" /\ pc = "call"
    /\ SolverEntry(arg.I_i, "T_i")

\* Line 641.
SettlingSolveFinal ==
    /\ pc = "settling_solve_f"
    /\ SolverEntry(arg.I_f, "T_f")

\* Lines 642-644.
SettlingInit ==
    /\ pc = "settling_init"
    /\ tq_s' = SolarGainOf(arg.e).v
    /\ Time' = 0
    /\ sT' = tT_i[1]
    /\ pc' = "settling_loop"
    /\ UNCHANGED <<op, arg, earlier, stdout, frame, solverVars, T, n, k, tT_i, tT_f, passes, result, exc>>

\* One pass of the while loop, lines 645-654.
SettlingStep ==
    /\ pc = "settling_loop" /\ SettlingLoopTest(sT, tT_f[1])
    /\ passes < MaxSettlePasses
    /\ \E d \in {SettlingIncrement(sT, arg, tq_s)} :
          IF IsRaise(d)
          THEN Raised(d.tag) /\ UNCHANGED <<sT, Time>>
          ELSE sT' = SettlingAdvance(sT, arg.dT) /\ Time' = Time + d.v /\ pc' = pc /\ exc' = exc
    /\ passes' = passes + 1
    /\ UNCHANGED <<op, arg, earlier, stdout, frame, solverVars, T, n, k, tT_i, tT_f, tq_s, result>>

\* return Time, line 655.
SettlingReturn ==
    /\ pc = "settling_loop" /\ ~SettlingLoopTest(sT, tT_f[1])
    /\ result' = <<Time>>
    /\ pc' = "done"
    /\ UNCHANGED <<op, arg, earlier, stdout, frame, solverVars, transientVars, exc>>

Next ==
    \/ RatingCall
    \/ SolverCall
    \/ RoundTripRating
    \/ RoundTripSolve
    \/ SolverPass
    \/ SolverReturn
    \/ TrajectoryCall
    \/ TrajectoryInit
    \/ TrajectoryStep
    \/ TrajectoryReturn
    \/ SettlingCall
    \/ SettlingSolveFinal
    \/ SettlingInit
    \/ SettlingStep
    \/ SettlingReturn
    \/ ThermalRatingCall
    \/ NextCall
    \/ DeltaTCall
    \/ DeltaTimeCall
    \/ SolarGainCall
    \/ ConvectionCall
    \/ RadiationCall
    \/ ResistanceCall
    \/ DayOfYearCall
    \/ AzimuthConstantCall
    \/ HourAngleCall
    \/ HeatCapacityCall

Spec == Init /\ [][Next]_vars

(***************************************************************************)
(* Properties of the solver.                                               *)
(***************************************************************************)
FloorDiv(a, b) == IF b > 0 THEN a \div b ELSE (-a) \div (-b)

InSolverCall == op = "steady_state_conductor_temperature"

\* C1: for every input and every integer imax the solver runs its loop body n
\* times, 1 <= n <= max(1, imax), and then returns: no call ends in an exception,
\* no pass starts after max(1, imax) passes, and a call that has returned made at
\* least one pass.
C1_SolverAlwaysReturns ==
    InSolverCall =>
        /\ exc = "none"
        /\ i <= Max(1, arg.imax)
        /\ pc = "solver_loop" => i < Max(1, arg.imax)
        /\ pc = "done" => i >= 1

\* C2: a pass of the solver that does not raise ends the loop exactly when, with
\* the values of ea and i it has just computed, ea <= es or i >= imax; a pass that
\* does not meet the test stays in the loop with T_avg still None; the pass that
\* meets it stores the trial temperature of that very pass, and that value is
\* what the call returns, the same way whether es or the cap ended the loop.
C2_ExitAtFirstPassMeetingTest ==
    [][/\ (pc = "solver_loop" /\ pc' # "raised") =>
            /\ i' = i + 1
            /\ IF ea' <= arg.es \/ i' >= arg.imax
               THEN pc' = "solver_return" /\ T_avg' = <<T_i'>>
               ELSE pc' = "solver_loop" /\ T_avg' = <<>>
       /\ (pc = "solver_return" /\ frame = "main") =>
            /\ pc' = "done" /\ exc' = "none"
            /\ result' = <<T_i>>]_vars

\* A return forced by the cap on the second pass, the tolerance not being met.
C2_ReturnedAtCap ==
    /\ InSolverCall /\ pc = "done"
    /\ i = arg.imax /\ i = 2 /\ ea > arg.es
    /\ result = <<T_i>>

(***************************************************************************)
(* Properties of steady_state_thermal_rating.                              *)
(***************************************************************************)
\* r is the square root of the quotient num / R, to the resolution of a current.
IsSqrtOfQuotient(r, num, R) ==
    /\ r >= 0
    /\ r * r <= MulDiv(num, 100000000, R)
    /\ MulDiv(num, 100000000, R) < (r + 1) * (r + 1)

FailsClosed(num, R) == R = 0 \/ (num < 0 /\ R > 0) \/ (num > 0 /\ R < 0)

\* C3: steady_state_thermal_rating never raises; it returns 0 when R is 0 or the
\* radicand (q_c + q_r - q_s) / R is negative, and the square root of the
\* radicand in every other case.
C3_RatingFailsClosed ==
    (op = "steady_state_thermal_rating" /\ pc # "call") =>
        /\ pc = "done" /\ exc = "none"
        /\ IF FailsClosed(arg.q_c + arg.q_r - arg.q_s, arg.R_T_avg)
           THEN result = <<0>>
           ELSE IsSqrtOfQuotient(result[1], arg.q_c + arg.q_r - arg.q_s, arg.R_T_avg)

\* A rating of 0 returned for a negative radicand.
C3_ZeroForNegativeRadicand ==
    /\ op = "steady_state_thermal_rating" /\ pc = "done"
    /\ arg.q_c + arg.q_r - arg.q_s < 0 /\ arg.R_T_avg > 0
    /\ result = <<0>>

(***************************************************************************)
(* Properties of transient_conductor_temperature.                          *)
(***************************************************************************)
InTrajectoryCall == op = "transient_conductor_temperature"

\* C4 as stated: for every total_time and step_time the returned list has length
\* floor(total_time / step_time) + 1.
C4_LengthIsFloorPlusOne ==
    (InTrajectoryCall /\ pc = "done") =>
        Len(result[1]) = FloorDiv(arg.time, arg.dt) + 1

\* C4: the returned list has length max(0, trunc(total_time / step_time)) + 1,
\* the initial sample plus one sample per step: that is floor(total_time /
\* step_time) + 1 when the quotient is not negative and 1 when it is negative.
C4_LengthIsTruncPlusOne ==
    (InTrajectoryCall /\ pc = "done") =>
        /\ Len(result[1]) = Max(0, TruncDiv(arg.time, arg.dt)) + 1
        /\ Len(result[1]) = k + 1
        /\ IF Sgn(arg.time) * Sgn(arg.dt) >= 0
           THEN Len(result[1]) = FloorDiv(arg.time, arg.dt) + 1
           ELSE Len(result[1]) = 1

\* A negative total_time shorter than one step: floor is -1, the list has one
\* element.
C4_NegativeQuotientOneSample ==
    /\ InTrajectoryCall /\ pc = "done"
    /\ arg.time < 0 /\ arg.dt > -arg.time
    /\ Len(result[1]) = 1

\* C5: the first element of the list is exactly what the solver returns for
\* I_initial with the same environment, conductor, es and imax, whatever I_final,
\* step_time and total_time are.
C5_FirstSampleIsSolverResult ==
    (InTrajectoryCall /\ pc \in {"trajectory_loop", "done"}) =>
        /\ T[1] = steady_state_conductor_temperature(arg.I_i, arg.e, arg.es, arg.imax).v
        /\ pc = "done" => result[1][1] = T[1]

\* A returned trajectory of several samples whose two currents differ.
C5_ReturnedAfterCurrentStep ==
    /\ InTrajectoryCall /\ pc = "done"
    /\ arg.I_i # arg.I_f
    /\ Len(result[1]) >= 2

\* The forward-Euler successor of the sample t in the call with arguments a.
EulerSuccessor(t, a) ==
    t + delta_T(NetHeating(t, a.I_f, SolarGainOf(a.e).v, a.e).v, a.mC_p, a.dt).v

\* C6: every appended sample is the forward-Euler successor of the sample before
\* it, computed with I_final, the one q_s of the call and the caller's step_time.
C6_SamplesAreEulerSuccessors ==
    (InTrajectoryCall /\ pc \in {"trajectory_loop", "done"}) =>
        /\ Len(T) = k + 1
        /\ \A j \in 1..(Len(T) - 1) : T[j + 1] = EulerSuccessor(T[j], arg)

\* A returned trajectory with all its steps taken toward a different current.
C6_AllStepsTaken ==
    /\ InTrajectoryCall /\ pc = "done"
    /\ arg.I_i # arg.I_f
    /\ Len(result[1]) = MaxSteps + 1

(***************************************************************************)
(* Properties of transient_settling_time.                                  *)
(***************************************************************************)
\* Both steady states are solved and the loop has been entered or left.
InSettlingLoop ==
    op = "transient_settling_time" /\ pc \in {"settling_loop", "done"}

\* The sum of the increments mC_p / (R(T) I_f^2 + q_s - q_c(T) - q_r(T)) * dT of
\* m passes, the first at temperature t.
RECURSIVE SumOfIncrements(_, _, _)
SumOfIncrements(t, m, a) ==
    IF m = 0 THEN 0
    ELSE delta_t(NetHeating(t, a.I_f, SolarGainOf(a.e).v, a.e).v, a.mC_p, a.dT).v
         + SumOfIncrements(t + a.dT, m - 1, a)

Heating == arg.dT > 0 /\ tT_i[1] <= tT_f[1]

\* C7: for dT > 0 and T_initial <= T_final the running temperature is T_initial
\* plus dT per pass and the time is the sum of the increments of the passes, each
\* at the temperature before the advance; the loop test holds at the loop head
\* before floor((T_final - T_initial) / dT) + 1 passes and fails after them, so
\* that, unless a pass divides by zero, the body runs exactly that many times,
\* the loop stops at the first running temperature above T_final and the call
\* returns the accumulated time.
C7_HeatingSettles ==
    (InSettlingLoop /\ Heating) =>
        /\ sT = tT_i[1] + passes * arg.dT
        /\ Time = SumOfIncrements(tT_i[1], passes, arg)
        /\ passes <= FloorDiv(tT_f[1] - tT_i[1], arg.dT) + 1
        /\ (sT <= tT_f[1]) <=> (passes < FloorDiv(tT_f[1] - tT_i[1], arg.dT) + 1)
        /\ pc = "done" =>
              /\ passes = FloorDiv(tT_f[1] - tT_i[1], arg.dT) + 1
              /\ sT > tT_f[1] /\ sT - arg.dT <= tT_f[1]
              /\ result = <<Time>>

\* A heating transient that returned after several passes.
C7_ReturnedAfterPasses ==
    /\ InSettlingLoop /\ Heating /\ pc = "done"
    /\ tT_i[1] < tT_f[1] /\ passes >= 3
    /\ result = <<Time>>

Cooling == arg.I_f < arg.I_i /\ tT_f[1] < tT_i[1]

\* C8 as stated: when I_final < I_initial and the solved T_final < T_initial the
\* loop does not terminate: the call never returns.
C8_CoolingNeverReturns ==
    (InSettlingLoop /\ Cooling) => pc # "done"

\* C8: when I_final < I_initial and the solved T_final < T_initial the loop test
\* T <= T_final is false on entry: the body never runs and the call returns 0.
C8_CoolingReturnsZero ==
    (InSettlingLoop /\ Cooling) =>
        /\ passes = 0 /\ Time = 0
        /\ sT = tT_i[1] /\ ~(sT <= tT_f[1])
        /\ pc = "done" => result = <<0>>

\* A cooling transient that returned 0.
C8_CoolingReturned ==
    /\ InSettlingLoop /\ Cooling /\ pc = "done"
    /\ passes = 0 /\ result = <<0>>

\* C9: with dT <= 0 and T_initial <= T_final the running temperature never
\* exceeds T_final: at every loop head the loop test holds, so the body runs
\* again, and the call neither returns nor raises.
C9_NoProgressNeverReturns ==
    (/\ op = "transient_settling_time"
     /\ pc \in {"settling_loop", "done", "raised"} /\ tT_f # <<>>
     /\ arg.dT <= 0 /\ tT_i[1] <= tT_f[1]) =>
        /\ pc = "settling_loop"
        /\ sT <= tT_i[1] /\ sT <= tT_f[1]

\* A loop with dT <= 0 still running after MaxSettlePasses passes.
C9_StillLooping ==
    /\ InSettlingLoop /\ pc = "settling_loop"
    /\ arg.dT <= 0 /\ tT_i[1] <= tT_f[1]
    /\ passes = MaxSettlePasses

(***************************************************************************)
(* The round trip.                                                         *)
(***************************************************************************)
\* C10: the solver applied to the rating computed at T_max = T*, T* above
\* ambient, returns T* within the tolerance es (percent).
C10_RoundTripRecoversTemperature ==
    (op = "round_trip" /\ pc = "done" /\ arg.T_max > arg.e.T_a) =>
        MulDiv(Abs(result[1] - arg.T_max), 10000, arg.T_max) <= arg.es

(***************************************************************************)
(* The sub-models called on their own.                                     *)
(***************************************************************************)
\* C13: a zero heat capacity in delta_T and a zero net heating in delta_t produce
\* 0 for the step instead of an error, and the transient call around the step
\* returns normally.
C13_DegenerateDivisionYieldsZero ==
    /\ (op = "delta_T" /\ arg.mC_p = 0 /\ pc # "call")
          => (pc = "done" /\ result = <<0>>)
    /\ (op = "delta_t" /\ NetHeatingOfArgs(arg) = 0 /\ pc # "call")
          => (pc = "done" /\ result = <<0>>)
    /\ (op \in {"transient_conductor_temperature", "transient_settling_time"})
          => exc # "ZeroDivisionError"

InSolarCall == op = "solar_heat_gain"

\* The altitude H_c of line 347 for the environment record v of a valid date.
AltitudeOf(v) ==
    altitude_sun(v.lat, solar_declination(day_of_year(v.year, v.month, v.day)),
                 hour_angle(v.hour))

\* C11: solar_heat_gain returns exactly 0 whenever the altitude of the sun is <= 0,
\* for every latitude, date, elevation, conductor azimuth and both atmospheres.
C11_ZeroGainBelowHorizon ==
    (InSolarCall /\ pc = "done" /\ AltitudeOf(arg.e).v <= 0) => result = <<0>>

InConvectionCall == op = "convection_heat_loss"

\* C12: convection_heat_loss does not raise when the air viscosity at the film
\* temperature is zero, T_film = (T_s + T_a) / 2 = -273: it returns 0.
C12_ZeroViscosityReturnsZero ==
    (InConvectionCall /\ pc # "call" /\ arg.T_s + arg.e.T_a = 2 * (-273000))
        => (pc = "done" /\ result = <<0>>)

\* C14: solar_heat_gain is total: whatever the numbers passed, also a month and
\* day that are no calendar date, it returns a number and never raises.
C14_SolarGainNeverRaises ==
    (InSolarCall /\ pc # "call") => (pc = "done" /\ exc = "none" /\ Len(result) = 1)

\* alpha * Q_se * sin(theta) * D_o of line 356 for the environment record v.
GainProductOf(v) ==
    GainProduct(AltitudeOf(v).v,
                azimuth_variable(hour_angle(v.hour), v.lat,
                    solar_declination(day_of_year(v.year, v.month, v.day))).v,
                hour_angle(v.hour), elevation_correction_factor(v.H_e),
                v.industrial_atmosphere, v.Z_l, v.D_o, v.alpha)

\* C15: the value solar_heat_gain returns is never negative: it is the product
\* alpha * Q_se * sin(theta) * D_o when that is >= 0 and exactly 0 when it is
\* negative.
C15_GainIsClampedProduct ==
    (InSolarCall /\ pc = "done")
        => /\ result[1] >= 0
           /\ result[1] = IF GainProductOf(arg.e) >= 0 THEN GainProductOf(arg.e) ELSE 0

\* solar_heat_gain has returned 0 for a negative product.
C15_NegativeProductClamped ==
    InSolarCall /\ pc = "done" /\ GainProductOf(arg.e) < 0 /\ result = <<0>>

InResistanceCall == op = "conductor_electrical_resistance"

\* R_0 * alpha_T * (t1 - t2) in the unit of the resistance.
SlopeTimes(R_0, alpha_T, t1, t2) == MulDiv(MulDiv(R_0, alpha_T, 1000), t1 - t2, 1000000)

\* C18: conductor_electrical_resistance is affine in T with slope R_0 * alpha_T:
\* it returns exactly R_0 at T = T_0, and its results at two temperatures T1 and
\* T2 differ by R_0 * alpha_T * (T1 - T2).
C18_ResistanceIsAffine ==
    (InResistanceCall /\ pc = "done")
        => /\ arg.T_avg = arg.e.T_0 => result = <<arg.e.R_0>>
           /\ \A t2 \in ResistanceTemperatures :
                 result[1] - conductor_electrical_resistance(arg.e.R_0, arg.e.T_0,
                                                             arg.e.alpha_T, t2)
                    = SlopeTimes(arg.e.R_0, arg.e.alpha_T, arg.T_avg, t2)

\* A resistance has been returned for a temperature off the reference.
C18_ResistanceOffReference ==
    /\ InResistanceCall /\ pc = "done"
    /\ arg.T_avg # arg.e.T_0 /\ arg.e.T_0 # 0 /\ arg.e.alpha_T # 0
    /\ result # <<arg.e.R_0>>

InHeatCapacityCall == op = "conductor_heat_capacity"

\* The sum over j in S of a[j] * b[j].
RECURSIVE SumOfProducts(_, _, _)
SumOfProducts(a, b, S) ==
    IF S = {} THEN 0
    ELSE LET j == CHOOSE x \in S : TRUE
         IN  a[j] * b[j] + SumOfProducts(a, b, S \ {j})

\* The permutations of 1 .. len.
OrdersOf(len) ==
    {p \in [1 .. len -> 1 .. len] : \A a, b \in 1 .. len : a # b => p[a] # p[b]}

\* The list a with its elements in the order p.
Permuted(a, p) == [j \in DOMAIN a |-> a[p[j]]]

\* C19: for lists of equal length conductor_heat_capacity returns the sum over i
\* of m_i[i] * C_pi[i], 0 for empty lists, and the same value when one
\* permutation is applied to both lists.
C19_HeatCapacityIsSumOfProducts ==
    (InHeatCapacityCall /\ pc = "done" /\ Len(arg.m_i) = Len(arg.C_pi))
        => /\ result[1] = SumOfProducts(arg.m_i, arg.C_pi, DOMAIN arg.m_i)
           /\ arg.m_i = <<>> => result = <<0>>
           /\ \A p \in OrdersOf(Len(arg.m_i)) :
                 conductor_heat_capacity(Permuted(arg.m_i, p), Permuted(arg.C_pi, p))
                    = result[1]

\* The heat capacity of three different materials has been returned.
C19_ThreeMaterialsSummed ==
    /\ InHeatCapacityCall /\ pc = "done" /\ Len(arg.m_i) = 3
    /\ arg.m_i[1] # arg.m_i[2] /\ arg.m_i[2] # arg.m_i[3] /\ arg.m_i[1] # arg.m_i[3]
    /\ result[1] > 0

InRadiationCall == op = "radiated_heat_loss"

\* C20: the ambient and the other parameters fixed, convection_heat_loss and
\* radiated_heat_loss do not decrease when the surface temperature T_s rises,
\* also for surface temperatures below the ambient.
C20_LossesNonDecreasing ==
    /\ (InConvectionCall /\ pc = "done")
          => \A t2 \in SurfaceTemperatures :
                t2 >= arg.T_s
                   => \E v \in {ConvectionOf(arg.e, t2)} : IsReal(v) /\ result[1] <= v.v
    /\ (InRadiationCall /\ pc = "done")
          => \A t2 \in SurfaceTemperatures :
                t2 >= arg.T_s
                   => result[1] <= radiated_heat_loss(arg.e.D_o, arg.e.epsilon, t2,
                                                      arg.e.T_a)

\* convection_heat_loss has returned for a surface colder than the ambient, and
\* the loss of the same conductor is larger at 150 C.
C20_ColderThanAmbient ==
    /\ InConvectionCall /\ pc = "done" /\ arg.T_s < arg.e.T_a
    /\ result[1] < ConvectionOf(arg.e, 150000).v

(***************************************************************************)
(* Calls one after the other.                                              *)
(***************************************************************************)
\* The call that is running repeats the j-th earlier call of the process.
RepeatsEarlier(j) == earlier[j].op = op /\ earlier[j].arg = arg

C17_StdoutUnchanged == stdout = <<>>

(***************************************************************************)
(* The calendar and the azimuth.                                           *)
(***************************************************************************)
InDayOfYearCall == op = "day_of_year"

\* The ordinal of a date in its year, 1 for 1 January.
OrdinalDay(year, month, day) == DaysBeforeMonth(year, month) + day

\* C21: day_of_year returns the 1-based ordinal of the date, as its docstring
\* says: 21 for 21 January, 1 for 1 January.
C21_DayOfYearIsOrdinal ==
    (InDayOfYearCall /\ pc = "done")
        => result = <<OrdinalDay(arg.e.year, arg.e.month, arg.e.day)>>

(***************************************************************************)
(* The passes of the solver.                                               *)
(***************************************************************************)
\* The perturbed trial T_i2 of line 113.
Perturbed(t) == MulDiv(t, 1000 + delta, 1000)

\* The residuals f_i and f_i2 of the pass that starts in this state.
ResidualHere == Residual(T_i, I_ss, q_s, arg.e)

PerturbedResidualHere == Residual(Perturbed(T_i), I_ss, q_s, arg.e)

\* A pass starts in this state and neither residual raises.
PassStarts ==
    pc = "solver_loop" /\ IsReal(ResidualHere) /\ IsReal(PerturbedResidualHere)

\* f_i2 - f_i = 0 at the trial of this state.
FlatResiduals ==
    /\ IsReal(ResidualHere) /\ IsReal(PerturbedResidualHere)
    /\ ResidualHere.v = PerturbedResidualHere.v

\* The pass that starts in this state has f_i2 - f_i = 0.
FlatPass == pc = "solver_loop" /\ FlatResiduals

\* C22: in a pass of the solver in which f(T') - f(T) is exactly 0 nothing is
\* divided by it (no exception leaves the pass) and the trial temperature at the
\* end of the pass is the trial temperature at its start.
C22_FlatResidualKeepsTrial ==
    [][FlatPass => (T_i' = T_i /\ exc' = "none" /\ pc' # "raised")]_vars

\* The first pass has been made from a seed other than 0 with equal residuals.
C22_FlatFirstPassDone ==
    /\ InSolverCall /\ i = 1 /\ pc = "solver_return"
    /\ T_i = arg.e.T_a + SeedOffset /\ T_i # 0
    /\ FlatResiduals

\* The trial of lines 129-130 for the pass that starts in this state.
UpdatedTrialHere == SecantUpdate(T_i, ResidualHere.v, PerturbedResidualHere.v)

\* C23: in a pass of the solver whose updated trial temperature is exactly 0 the
\* relative error is not computed (nothing is divided by 0) and ea keeps the
\* value it had before the pass, 100 in the first pass; the exit test compares
\* that value with es.
C23_ZeroTrialKeepsError ==
    [][(PassStarts /\ UpdatedTrialHere = 0)
          => /\ T_i' = 0 /\ ea' = ea /\ exc' = "none"
             /\ i = 0 => ea' = InitialEa
             /\ pc' = "solver_return" <=> (ea <= arg.es \/ i + 1 >= arg.imax)]_vars

\* A first pass has ended with the trial 0, ea still 100 percent, and the loop
\* goes on.
C23_ZeroTrialAfterFirstPass ==
    InSolverCall /\ i = 1 /\ T_i = 0 /\ ea = InitialEa /\ pc = "solver_loop"

\* f(x) = steady_state_thermal_rating(q_c(x), q_r(x), q_s, R(x)) - I_ss for the gain
\* gain and the current target of a call with the environment v.
RatingResidual(x, gain, target, v) ==
    steady_state_thermal_rating(
        convection_heat_loss(x, v.T_a, v.H_e, v.D_o, v.phi, v.V_w).v,
        radiated_heat_loss(v.D_o, v.epsilon, x, v.T_a), gain,
        conductor_electrical_resistance(v.R_0, v.T_0, v.alpha_T, x)) - target

\* t - 0.1 * t * f / (f2 - f).
SecantStep(t, f, f2) == t - MulDiv(MulDiv(t, 100, 1000), f, f2 - f)

\* C24: the first pass of the solver starts at T = T_ambient + 5, every pass uses
\* the perturbed point T' = 1.1 * T, and whenever f(T') # f(T) the next trial is
\* T - 0.1 * T * f(T) / (f(T') - f(T)), f being the rating minus I_ss with the
\* q_s computed once before the loop.
C24_PassIsSecantStep ==
    [][/\ (pc = "solver_loop" /\ i = 0)
             => (T_i = arg.e.T_a + 5000 /\ Real(q_s) = SolarGainOf(arg.e))
       /\ (PassStarts /\ ~FlatResiduals)
             => /\ T_i' = SecantStep(T_i, RatingResidual(T_i, q_s, I_ss, arg.e),
                                     RatingResidual(MulDiv(T_i, 1100, 1000), q_s, I_ss,
                                                    arg.e))
                /\ q_s' = q_s /\ I_ss' = I_ss]_vars

\* The solver has returned, after three passes or more, a temperature that is
\* not its seed.
C24_ReturnedAfterSteps ==
    /\ InSolverCall /\ pc = "done" /\ i >= 3
    /\ result # <<arg.e.T_a + 5000>>

InAzimuthConstantCall == op = "azimuth_constant"

InHourAngleCall == op = "hour_angle"

\* C25: azimuth_constant returns 0 when the hour angle is in [-180, 0) and the
\* azimuth variable is >= 0, 360 when the hour angle is in [0, 180) and the
\* variable is < 0, and 180 otherwise, so always one of 0, 180, 360; and for
\* every hour in [0, 24) the hour angle 15 * (hour - 12) lies in [-180, 180).
C25_AzimuthConstantCases ==
    /\ (InAzimuthConstantCall /\ pc = "done")
          => /\ (arg.omega \in -180000 .. -1 /\ arg.ji >= 0) => result = <<0>>
             /\ (arg.omega \in 0 .. 179999 /\ arg.ji < 0) => result = <<360000>>
             /\ ~(arg.omega \in -180000 .. -1 /\ arg.ji >= 0)
                   /\ ~(arg.omega \in 0 .. 179999 /\ arg.ji < 0)
                => result = <<180000>>
             /\ result[1] \in {0, 180000, 360000}
    /\ (InHourAngleCall /\ pc # "call" /\ arg.e.hour \in 0 .. 23)
          => /\ pc = "done"
             /\ result = <<15 * (arg.e.hour - 12) * 1000>>
             /\ result[1] \in -180000 .. 179999

\* azimuth_constant has returned 180 at hour angle 0 for a variable >= 0.
C25_NoonIsOtherwise ==
    /\ InAzimuthConstantCall /\ pc = "done"
    /\ arg.omega = 0 /\ arg.ji >= 0 /\ result = <<180000>>

(* The convection loss. *)

\* The natural term of the call in arg, at the film temperature.
NaturalTermOf(a) ==
    natural_convection_heat_loss(
        air_density(a.e.H_e, temperature_boundary_layer(a.T_s, a.e.T_a)).v,
        a.e.D_o, a.T_s, a.e.T_a)

\* max(q_cf1, q_cf2) of the call in arg, at the film temperature.
ForcedTermOf(a) ==
    forced_convection_heat_loss(
        wind_direction_factor(a.e.phi),
        reynolds_number(a.e.D_o,
            air_density(a.e.H_e, temperature_boundary_layer(a.T_s, a.e.T_a)).v,
            a.e.V_w, air_viscosity(temperature_boundary_layer(a.T_s, a.e.T_a))),
        air_thermal_conductivity_coefficient(temperature_boundary_layer(a.T_s, a.e.T_a)),
        a.T_s, a.e.T_a)

\* C26: for all inputs convection_heat_loss returns max(q_cn, max(q_cf1, q_cf2)),
\* the larger of the natural term and the larger of the two forced correlations,
\* all of them evaluated at the film temperature (T_s + T_a) / 2.
C26_ReturnsLargestTerm ==
    (InConvectionCall /\ pc # "call")
        => /\ pc = "done"
           /\ IsReal(NaturalTermOf(arg))
           /\ result = <<Max(NaturalTermOf(arg).v, ForcedTermOf(arg))>>

\* A call with the surface colder than ambient and both above absolute zero.
ColdSurfaceCall == InConvectionCall /\ arg.T_s < arg.e.T_a /\ arg.T_s > -273000

SeededAtZero == InSolverCall /\ arg.e.T_a + 5000 = 0 /\ arg.es < 10000

\* C27: a trial temperature of exactly 0 is absorbing: at the start of a pass
\* with trial 0 the perturbed point is 0 too, the two residuals are equal, the
\* trial stays 0 and ea is not recomputed; so for es < 100 a run seeded at 0
\* leaves the loop only through the iteration cap, after exactly max(1, imax)
\* passes, and returns 0.
C27_ZeroTrialIsAbsorbing ==
    [][/\ (pc = "solver_loop" /\ T_i = 0)
             => /\ MulDiv(T_i, 1100, 1000) = 0
                /\ FlatResiduals
                /\ T_i' = 0 /\ ea' = ea /\ exc' = "none"
       /\ (SeededAtZero /\ pc = "solver_loop")
             => /\ T_i = 0 /\ ea = 10000
                /\ pc' = "solver_return" <=> i + 1 = Max(1, arg.imax)
       /\ (SeededAtZero /\ pc = "solver_return")
             => (i = Max(1, arg.imax) /\ pc' = "done" /\ result' = <<0>>)]_vars

\* A run seeded at 0 has returned 0 after all the passes of a cap above 1.
C27_ReturnedZeroAtCap ==
    SeededAtZero /\ pc = "done" /\ arg.imax > 1 /\ i = arg.imax /\ result = <<0>>

\* Both residuals of the pass that starts here are -I_ss: the rating is 0 at the
\* trial and at the perturbed point.
RatingZeroAtBothPoints ==
    FlatPass /\ ResidualHere.v = -I_ss /\ PerturbedResidualHere.v = -I_ss

\* C28: a pass whose two residuals are exactly equal while the trial is not 0
\* sets ea to 0 and so, for every es >= 0, ends the iteration in that pass with
\* the trial returned unchanged; when the rating is 0 at both points of the first
\* pass (both residuals -I_ss), the seed T_ambient + 5 is returned after one pass.
C28_FlatPassEndsIteration ==
    [][/\ (FlatPass /\ T_i # 0 /\ arg.es >= 0)
             => /\ ea' = 0 /\ T_i' = T_i
                /\ pc' = "solver_return" /\ T_avg' = <<T_i>>
       /\ (RatingZeroAtBothPoints /\ i = 0 /\ T_i # 0 /\ arg.es >= 0)
             => /\ i' = 1 /\ pc' = "solver_return"
                /\ T_avg' = <<arg.e.T_a + 5000>>
       /\ (InSolverCall /\ pc = "solver_return")
             => (pc' = "done" /\ result' = T_avg)]_vars

\* The solver has returned its seed after one pass for a target current above 0
\* and the tolerance 0.
C28_SeedReturnedAsConverged ==
    /\ InSolverCall /\ pc = "done" /\ i = 1 /\ ea = 0
    /\ arg.I_ss > 0 /\ arg.es = 0 /\ arg.imax > 1
    /\ result = <<arg.e.T_a + 5000>>

(* The settling time between equal temperatures. *)

\* R(t) * I_f^2 + q_s - q_c(t) - q_r(t) for the call a and the gain qs.
NetHeatingAt(t, a, qs) ==
    MulDiv(MulDiv(conductor_electrical_resistance(a.e.R_0, a.e.T_0, a.e.alpha_T, t),
                  a.I_f, 10000), a.I_f, 10000)
    + qs
    - convection_heat_loss(t, a.e.T_a, a.e.H_e, a.e.D_o, a.e.phi, a.e.V_w).v
    - radiated_heat_loss(a.e.D_o, a.e.epsilon, t, a.e.T_a)

\* transient_settling_time is past its two solutions, which are equal, with a
\* step dT > 0.
EqualTemperatures ==
    /\ op = "transient_settling_time" /\ arg.dT > 0
    /\ pc \in {"settling_loop", "done", "raised"}
    /\ tT_i # <<>> /\ tT_i = tT_f

\* C30: when the two solved temperatures are equal, as they are for
\* I_final = I_initial, and dT > 0, the loop body of transient_settling_time runs
\* exactly once, not zero times and not for ever: the result is the single
\* increment mC_p / (R(T_i) * I_f^2 + q_s - q_c(T_i) - q_r(T_i)) * dT, or the
\* division error when that net heating is exactly 0.
C30_EqualTemperaturesOnePass ==
    /\ (op = "transient_settling_time" /\ arg.I_i = arg.I_f
          /\ pc \in {"settling_loop", "done"})
          => tT_i = tT_f
    /\ EqualTemperatures
          => /\ passes <= 1
             /\ (pc = "settling_loop") => (passes = 0 <=> sT <= tT_f[1])
             /\ (pc = "done")
                   => /\ passes = 1
                      /\ NetHeatingAt(tT_i[1], arg, tq_s) # 0
                      /\ result = <<MulDiv(arg.mC_p * 10, arg.dT,
                                           NetHeatingAt(tT_i[1], arg, tq_s))>>
             /\ (pc = "raised")
                   => /\ passes = 1 /\ exc = "ZeroDivisionError"
                      /\ NetHeatingAt(tT_i[1], arg, tq_s) = 0

\* The settling time between equal temperatures has been returned: one increment
\* that is not 0.
C30_SingleIncrementReturned ==
    /\ EqualTemperatures /\ arg.I_i = arg.I_f /\ pc = "done"
    /\ passes = 1 /\ result # <<0>>

====
